---- MODULE Spec2Model ----
(***************************************************************************)
(* A model of lucthev/serialize (src/src/serialize.js): a Serialization is *)
(* a text with a list of markups {type, start, end, href}.  Markups are    *)
(* JavaScript objects, so the model keeps them in a heap and a markup list *)
(* is a sequence of references into it: an assignment to markup.start or   *)
(* markup.end is seen by every list that holds the same object.            *)
(***************************************************************************)
EXTENDS Integers, Sequences, FiniteSets

VARIABLES
  heap,   \* the markup objects, by reference: heap[id] is the object id
  s,      \* a Serialization: [type, text, length, markups], markups a
          \* sequence of references
  r,      \* a second Serialization, the result of the derivations
  op,     \* the name of the last operation
  arg,    \* its arguments
  pre,    \* s and r by value before the last operation, and the operation
          \* before it
  added,  \* the markups given to s.addMarkup / s.addMarkups, in call order
  eq,     \* what the last equals returned
  steps   \* the number of operations so far

vars == <<heap, s, r, op, arg, pre, added, eq, steps>>

\* ------------------------------------------------------------------ bounds
MaxLen == 3
MaxMarkups == 2
MaxPos == 1
MaxAdds == 3

\* ------------------------------------------------------------- data model
Undef == "undefined"

\* Serialize.types: numbers; ./types is not part of the sources, so the
\* numbers are the model's, with bold < italic as in the README's example.
link == 1
bold == 2
italic == 3
Types == {link, bold}
Hrefs == {"a", "b"}
\* The values of the type of a Serialization: fromJSON takes any string.
Tags == {"p", "H1"}

\* String#toLowerCase, on the tags.
toLowerCase(tag) == IF tag = "H1" THEN "h1" ELSE tag

Min(a, b) == IF a < b THEN a ELSE b
Max(a, b) == IF a > b THEN a ELSE b
Range(f) == {f[i] : i \in DOMAIN f}

\* A markup object; href is Undef when the property is absent.
Markup(t, a, b, h) == [type |-> t, start |-> a, end |-> b, href |-> h]

HrefsOf(t) == IF t = link THEN Hrefs ELSE {Undef}

\* The well-formed markups of a text of length n: 0 <= start < end <= n.
Markups(n) ==
  {Markup(t, a, b, h) : t \in Types, a \in 0..n, b \in 0..n, h \in Hrefs \cup {Undef}}

WellFormed(n) ==
  {m \in Markups(n) : m.start < m.end /\ m.href \in HrefsOf(m.type)}

\* The text of length n: the code units 1, 2, ..., n.
TextOf(n) == [i \in 1..n |-> i]

\* new Serialize(document.createElement(tag)): an element without children;
\* the type is the element's nodeName in lower case.
Serialize(tag) ==
  [type |-> toLowerCase(tag), text |-> <<>>, length |-> 0, markups |-> <<>>]

\* The setter of the text property: the length follows the text.
SetText(x, newText) == [x EXCEPT !.text = newText, !.length = Len(newText)]

\* Serialize.fromText(text, tag)
fromText(text, tag) == SetText(Serialize(tag), text)

\* The markups of a list of references, by value.
View(h, ms) == [i \in 1..Len(ms) |-> h[ms[i]]]

SerView(h, x) == [type |-> x.type, text |-> x.text, length |-> x.length,
                  markups |-> View(h, x.markups)]

\* (type, start, end) ascending, ties allowed.
LessEq(a, b) ==
  \/ a.type < b.type
  \/ a.type = b.type /\ a.start < b.start
  \/ a.type = b.type /\ a.start = b.start /\ a.end <= b.end

Sorted(v) == \A i \in 1..Len(v) - 1 : LessEq(v[i], v[i + 1])

Count(v, m) == Cardinality({i \in 1..Len(v) : v[i] = m})

SameBag(v, w) ==
  /\ Len(v) = Len(w)
  /\ \A m \in Range(v) \cup Range(w) : Count(v, m) = Count(w, m)

InsertAt(ms, i, x) == SubSeq(ms, 1, i - 1) \o <<x>> \o SubSeq(ms, i, Len(ms))
RemoveAt(ms, i) == SubSeq(ms, 1, i - 1) \o SubSeq(ms, i + 1, Len(ms))

\* ------------------------------------------------------------ addMarkup
\* One `while (this.markups[i] && P(this.markups[i])) i += 1` loop: the first
\* index at or after i that is past the end or fails P.
RECURSIVE SkipType(_, _, _, _)
SkipType(h, ms, toAdd, i) ==
  IF i <= Len(ms) /\ toAdd.type > h[ms[i]].type
  THEN SkipType(h, ms, toAdd, i + 1) ELSE i

RECURSIVE SkipStart(_, _, _, _)
SkipStart(h, ms, toAdd, i) ==
  IF i <= Len(ms) /\ toAdd.type = h[ms[i]].type /\ toAdd.start > h[ms[i]].start
  THEN SkipStart(h, ms, toAdd, i + 1) ELSE i

\* SkipEnd without its test of the start.
RECURSIVE SkipEndAnyStart(_, _, _, _)
SkipEndAnyStart(h, ms, toAdd, i) ==
  IF /\ i <= Len(ms)
     /\ toAdd.type = h[ms[i]].type
     /\ toAdd.end > h[ms[i]].end
  THEN SkipEndAnyStart(h, ms, toAdd, i + 1) ELSE i

RECURSIVE SkipEnd(_, _, _, _)
SkipEnd(h, ms, toAdd, i) ==
  IF /\ i <= Len(ms)
     /\ toAdd.type = h[ms[i]].type
     /\ toAdd.start = h[ms[i]].start
     /\ toAdd.end > h[ms[i]].end
  THEN SkipEnd(h, ms, toAdd, i + 1) ELSE i

\* The index (1-based) at which addMarkup splices the object `id` in.
InsertPos(h, ms, id) ==
  SkipEnd(h, ms, h[id], SkipStart(h, ms, h[id], SkipType(h, ms, h[id], 1)))

\* this.markups.splice(i, 0, toAdd), toAdd being the object `id` of the heap.
addMarkup(h, ms, id) == InsertAt(ms, InsertPos(h, ms, id), id)

\* A fresh object with the fields of m, added to the list ms:
\* [heap, markups] afterwards.
AddNew(h, ms, m) ==
  LET h2 == Append(h, m)
  IN [heap |-> h2, markups |-> addMarkup(h2, ms, Len(h2))]

\* addMarkups(toAdd): addMarkup for each element in input order.
RECURSIVE addMarkups(_, _, _)
addMarkups(h, ms, toAdd) ==
  IF toAdd = <<>> THEN [heap |-> h, markups |-> ms]
  ELSE LET one == AddNew(h, ms, Head(toAdd))
       IN addMarkups(one.heap, one.markups, Tail(toAdd))

\* --------------------------------------------------------- removeMarkup
\* Split with pieces that do not take the href over.
SplitNoHref(h, ms, i, toRemove) ==
  LET markup == h[ms[i]]
      before == Markup(markup.type, markup.start, toRemove.start, Undef)
      after == Markup(markup.type, toRemove.end, markup.end, Undef)
      n == Len(h)
  IN IF after.start # after.end /\ before.start # before.end
     THEN [heap |-> h \o <<before, after>>,
           markups |-> SubSeq(ms, 1, i - 1) \o <<n + 1, n + 2>>
                         \o SubSeq(ms, i + 1, Len(ms))]
     ELSE IF before.start # before.end
     THEN [heap |-> Append(h, before), markups |-> [ms EXCEPT ![i] = n + 1]]
     ELSE IF after.start # after.end
     THEN [heap |-> Append(h, after), markups |-> [ms EXCEPT ![i] = n + 1]]
     ELSE [heap |-> h, markups |-> RemoveAt(ms, i)]

\* The split of the object at index i, which contains toRemove's range:
\* the non-empty pieces among before and after replace it, as new objects
\* that carry the type and the href of the markup they come from.
Split(h, ms, i, toRemove) ==
  LET markup == h[ms[i]]
      before == Markup(markup.type, markup.start, toRemove.start, markup.href)
      after == Markup(markup.type, toRemove.end, markup.end, markup.href)
      n == Len(h)
  IN IF after.start # after.end /\ before.start # before.end
     THEN [heap |-> h \o <<before, after>>,
           markups |-> SubSeq(ms, 1, i - 1) \o <<n + 1, n + 2>>
                         \o SubSeq(ms, i + 1, Len(ms))]
     ELSE IF before.start # before.end
     THEN [heap |-> Append(h, before), markups |-> [ms EXCEPT ![i] = n + 1]]
     ELSE IF after.start # after.end
     THEN [heap |-> Append(h, after), markups |-> [ms EXCEPT ![i] = n + 1]]
     ELSE [heap |-> h, markups |-> RemoveAt(ms, i)]

\* The two clamps of a partially overlapping markup, in the code's order:
\* the second test reads the end, which the first assignment left alone.
Clamp(markup, toRemove) ==
  LET m1 == IF markup.start >= toRemove.start /\ markup.start < toRemove.end
            THEN [markup EXCEPT !.start = toRemove.end] ELSE markup
  IN IF m1.end > toRemove.start /\ m1.end <= toRemove.end
     THEN [m1 EXCEPT !.end = toRemove.start] ELSE m1

\* The for loop of removeMarkup from index i on: [heap, markups] at return.
RECURSIVE removeLoop(_, _, _, _)
removeLoop(h, ms, i, toRemove) ==
  IF i > Len(ms) THEN [heap |-> h, markups |-> ms]
  ELSE LET markup == h[ms[i]]
       IN IF markup.type > toRemove.type THEN [heap |-> h, markups |-> ms]
          ELSE IF markup.type # toRemove.type
          THEN removeLoop(h, ms, i + 1, toRemove)
          ELSE IF markup.start <= toRemove.start /\ markup.end >= toRemove.end
          THEN Split(h, ms, i, toRemove)
          ELSE LET c == Clamp(markup, toRemove)
                   h2 == [h EXCEPT ![ms[i]] = c]
               IN IF c.end <= c.start
                  THEN removeLoop(h2, RemoveAt(ms, i), i, toRemove)
                  ELSE removeLoop(h2, ms, i + 1, toRemove)

removeMarkup(h, ms, toRemove) == removeLoop(h, ms, 1, toRemove)

\* -------------------------------------------------------- mergeAdjacent
\* ./adjacent is not part of the sources; this is its description: one
\* left-to-right pass in which a markup of the type of the previous one that
\* starts at or before its end is folded into it, the previous one then
\* spanning [min(start), max(end)] and keeping its href.
RECURSIVE mergeLoop(_, _, _)
mergeLoop(h, ms, i) ==
  IF i > Len(ms) THEN [heap |-> h, markups |-> ms]
  ELSE LET prev == h[ms[i - 1]]
           next == h[ms[i]]
       IN IF next.type = prev.type /\ next.start <= prev.end
          THEN mergeLoop([h EXCEPT ![ms[i - 1]] =
                            [prev EXCEPT !.start = Min(prev.start, next.start),
                                         !.end = Max(prev.end, next.end)]],
                         RemoveAt(ms, i), i)
          ELSE mergeLoop(h, ms, i + 1)

mergeAdjacentList(h, ms) == mergeLoop(h, ms, 2)

\* mergeAdjacent whose result is not assigned to this.markups.
mergeAdjacentUnassigned(h, x) ==
  [heap |-> mergeAdjacentList(h, x.markups).heap, ser |-> x]

\* Serialize#mergeAdjacent: this.markups = mergeAdjacent(this.markups)
mergeAdjacent(h, x) ==
  LET m == mergeAdjacentList(h, x.markups)
  IN [heap |-> m.heap, ser |-> [x EXCEPT !.markups = m.markups]]

\* --------------------------------------------------------------- substr
\* while (start < 0) start = this.length + start
RECURSIVE WrapStart(_, _)
WrapStart(start, length) ==
  IF start < 0 THEN WrapStart(length + start, length) ELSE start

\* String#substr(start, length) for start >= 0.
StringSubstr(text, start, length) ==
  IF length <= 0 \/ start >= Len(text) THEN <<>>
  ELSE SubSeq(text, start + 1, Min(start + length, Len(text)))

\* Rebase without the clamp of the end to the slice.
RebaseUnclamped(markup, start, end) ==
  Markup(markup.type,
         IF markup.start > start THEN markup.start - start ELSE 0,
         markup.end - start,
         markup.href)

\* The copy of a markup that substr adds to its result for the slice
\* [start, end).
Rebase(markup, start, end) ==
  Markup(markup.type,
         IF markup.start > start THEN markup.start - start ELSE 0,
         IF markup.end < end THEN markup.end - start ELSE end - start,
         markup.href)

\* copyLoop that hands a markup lying within the slice over as it is, the
\* same object, when the slice starts at 0.
RECURSIVE copyLoopShared(_, _, _, _, _, _)
copyLoopShared(h, ms, i, start, end, out) ==
  IF i > Len(ms) THEN [heap |-> h, markups |-> out]
  ELSE LET markup == h[ms[i]]
       IN IF markup.start < end /\ markup.end > start
          THEN IF start = 0 /\ markup.end <= end
               THEN copyLoopShared(h, ms, i + 1, start, end,
                                   addMarkup(h, out, ms[i]))
               ELSE LET one == AddNew(h, out, Rebase(markup, start, end))
                    IN copyLoopShared(one.heap, ms, i + 1, start, end, one.markups)
          ELSE copyLoopShared(h, ms, i + 1, start, end, out)

\* The loop of substr over this.markups from index i on; out is the list of
\* the result so far.
RECURSIVE copyLoop(_, _, _, _, _, _)
copyLoop(h, ms, i, start, end, out) ==
  IF i > Len(ms) THEN [heap |-> h, markups |-> out]
  ELSE LET markup == h[ms[i]]
       IN IF markup.start < end /\ markup.end > start
          THEN LET one == AddNew(h, out, Rebase(markup, start, end))
               IN copyLoop(one.heap, ms, i + 1, start, end, one.markups)
          ELSE copyLoop(h, ms, i + 1, start, end, out)

\* An optional argument: <<>> when it is absent (undefined), <<n>> when it
\* is the number n.
Absent == <<>>
Given(n) == <<n>>

\* x.substr(start, length): [heap, ser], ser the new Serialization.
substr(h, x, start0, length0) ==
  LET empty == Serialize(x.type)
  IN IF x.length = 0 \/ (length0 # Absent /\ length0[1] <= 0)
     THEN [heap |-> h, ser |-> empty]
     ELSE LET start == WrapStart(start0, x.length)
              length == IF length0 = Absent THEN x.length - start
                        ELSE IF start + length0[1] > x.length
                        THEN x.length - start
                        ELSE length0[1]
              end == start + length
              c == copyLoop(h, x.markups, 1, start, end, <<>>)
          IN [heap |-> c.heap,
              ser |-> [SetText(empty, StringSubstr(x.text, start, length))
                         EXCEPT !.markups = c.markups]]

\* x.substring(start, end)
substring(h, x, start0, end0) ==
  LET swap == end0 # Absent /\ end0[1] < start0
      start1 == IF swap THEN end0[1] ELSE start0
      end1 == IF swap THEN Given(start0) ELSE end0
      start == IF start1 < 0 THEN 0 ELSE start1
      end2 == IF end1 # Absent /\ end1[1] < 0 THEN Given(0) ELSE end1
      end == IF end2 = Absent THEN x.length ELSE end2[1]
  IN substr(h, x, start, Given(end - start))

\* --------------------------------------------------------------- append
\* The string branch: the loop that extends the markups of the copy that end
\* at its length, from index i on.
RECURSIVE extendLoop(_, _, _, _, _)
extendLoop(h, ms, i, length, n) ==
  IF i > Len(ms) THEN h
  ELSE IF h[ms[i]].end = length
  THEN extendLoop([h EXCEPT ![ms[i]].end = @ + n], ms, i + 1, length, n)
  ELSE extendLoop(h, ms, i + 1, length, n)

\* shiftLoop that leaves every copy where it was.
RECURSIVE shiftLoopUnshifted(_, _, _, _, _)
shiftLoopUnshifted(h, ms, i, shift, out) ==
  IF i > Len(ms) THEN [heap |-> h, markups |-> out]
  ELSE LET markup == h[ms[i]]
           one == AddNew(h, out, markup)
       IN shiftLoopUnshifted(one.heap, ms, i + 1, shift, one.markups)

\* The loops of the Serialization branch: a copy of every markup of ms,
\* moved by shift, added to out.
RECURSIVE shiftLoop(_, _, _, _, _)
shiftLoop(h, ms, i, shift, out) ==
  IF i > Len(ms) THEN [heap |-> h, markups |-> out]
  ELSE LET markup == h[ms[i]]
           one == AddNew(h, out, Markup(markup.type, markup.start + shift,
                                        markup.end + shift, markup.href))
       IN shiftLoop(one.heap, ms, i + 1, shift, one.markups)

\* What append is given: nothing, a string or a Serialization.
NoArg == [kind |-> "undefined"]
StrArg(str) == [kind |-> "string", text |-> str]
SerArg(x) == [kind |-> "serialization", ser |-> x]

\* x.append(toAdd): [heap, ser].  An empty string is falsy.
append(h, x, toAdd) ==
  IF toAdd.kind = "undefined" \/ (toAdd.kind = "string" /\ toAdd.text = <<>>)
  THEN substr(h, x, 0, Absent)
  ELSE IF toAdd.kind = "string"
  THEN LET copy == substr(h, x, 0, Absent)
           h2 == extendLoop(copy.heap, copy.ser.markups, 1, copy.ser.length,
                            Len(toAdd.text))
       IN [heap |-> h2, ser |-> SetText(copy.ser, copy.ser.text \o toAdd.text)]
  ELSE LET other == toAdd.ser
           new == SetText(Serialize(x.type), x.text \o other.text)
           mine == shiftLoop(h, x.markups, 1, 0, <<>>)
           both == shiftLoop(mine.heap, other.markups, 1, x.length, mine.markups)
       IN mergeAdjacent(both.heap, [new EXCEPT !.markups = both.markups])

\* -------------------------------------------------------------- replace
\* ./replace is not part of the sources; this is its description, for a
\* pattern that is a literal, non-empty string pat, global (g) or not, and a
\* replacement string.

\* The offsets of the matches of pat in text from offset `from` on, left to
\* right, a match ending where the search for the next one starts.
RECURSIVE matchesFrom(_, _, _, _)
matchesFrom(text, pat, from, g) ==
  IF from + Len(pat) > Len(text) THEN <<>>
  ELSE IF SubSeq(text, from + 1, from + Len(pat)) = pat
  THEN <<from>> \o (IF g THEN matchesFrom(text, pat, from + Len(pat), g)
                    ELSE <<>>)
  ELSE matchesFrom(text, pat, from + 1, g)

\* String#replace for these matches (offsets in text, from `from` on).
RECURSIVE replaceText(_, _, _, _, _)
replaceText(text, from, matches, n, str) ==
  IF matches = <<>> THEN SubSeq(text, from + 1, Len(text))
  ELSE SubSeq(text, from + 1, Head(matches)) \o str
         \o replaceText(text, Head(matches) + n, Tail(matches), n, str)

\* One markup and one match [matchStart, matchEnd), replaced by newLen
\* characters: the markup is truncated so that it does not cover the match,
\* then every position at or after matchEnd moves by the change of length.
\* <<>> when the markup lies within the match and is dropped.
truncateShift(m, matchStart, matchEnd, newLen) ==
  LET delta == newLen - (matchEnd - matchStart)
      st == IF m.start >= matchStart /\ m.start < matchEnd THEN matchEnd
            ELSE m.start
      en == IF m.end > matchStart /\ m.end <= matchEnd THEN matchStart
            ELSE m.end
  IN IF m.start >= matchStart /\ m.end <= matchEnd THEN <<>>
     ELSE <<[m EXCEPT !.start = IF st >= matchEnd THEN st + delta ELSE st,
                      !.end = IF en >= matchEnd THEN en + delta ELSE en]>>

RECURSIVE truncateShiftAll(_, _, _, _)
truncateShiftAll(v, matchStart, matchEnd, newLen) ==
  IF v = <<>> THEN <<>>
  ELSE truncateShift(Head(v), matchStart, matchEnd, newLen)
         \o truncateShiftAll(Tail(v), matchStart, matchEnd, newLen)

\* replaceMarkups that looks at every match where it was in the receiver's
\* text.
RECURSIVE replaceMarkupsUnmoved(_, _, _, _, _)
replaceMarkupsUnmoved(v, matches, n, newLen, moved) ==
  IF matches = <<>> THEN v
  ELSE replaceMarkupsUnmoved(
         truncateShiftAll(v, Head(matches), Head(matches) + n, newLen),
         Tail(matches), n, newLen, moved)

\* The matches left to right; moved is what the earlier matches have moved
\* the text by, so that a match is looked at where it now is.
RECURSIVE replaceMarkups(_, _, _, _, _)
replaceMarkups(v, matches, n, newLen, moved) ==
  IF matches = <<>> THEN v
  ELSE replaceMarkups(
         truncateShiftAll(v, Head(matches) + moved, Head(matches) + moved + n,
                          newLen),
         Tail(matches), n, newLen, moved + newLen - n)

\* x.replace(pat, str): [heap, ser], ser a new Serialization.
replace(h, x, pat, g, str) ==
  LET matches == matchesFrom(x.text, pat, 0, g)
      v == replaceMarkups(View(h, x.markups), matches, Len(pat), Len(str), 0)
      new == SetText(Serialize(x.type),
                     replaceText(x.text, 0, matches, Len(pat), str))
      added_ == addMarkups(h, <<>>, v)
  IN [heap |-> added_.heap, ser |-> [new EXCEPT !.markups = added_.markups]]

\* --------------------------------------------------------------- equals
\* Object.keys(markup): href is a key only when it was set.
Keys(markup) ==
  IF markup.href = Undef THEN {"type", "start", "end"}
  ELSE {"type", "start", "end", "href"}

equals(h, x, other) ==
  IF \/ x.type # other.type
     \/ x.text # other.text
     \/ Len(x.markups) # Len(other.markups)
  THEN FALSE
  ELSE \A i \in 1..Len(x.markups) :
         LET markup == h[x.markups[i]]
             otherMarkup == h[other.markups[i]]
         IN /\ Cardinality(Keys(markup)) = Cardinality(Keys(otherMarkup))
            /\ \A k \in Keys(markup) : markup[k] = otherMarkup[k]

\* ======================================================== state machine
\* Every sorted list of at most k well-formed markups of a text of length n.
SortedLists(n, k) ==
  UNION {{f \in [1..j -> WellFormed(n)] : Sorted(f)} : j \in 0..k}

Snapshot == [op |-> op, s |-> SerView(heap, s), r |-> SerView(heap, r)]

\* The state after construction: s has the given type and text and the
\* markups of list, as after fromJSON; r is an empty Serialization of its
\* own.
InitText(tag, text, list) ==
  /\ heap = list
  /\ s = [fromText(text, tag) EXCEPT !.type = tag,
                                     !.markups = [i \in 1..Len(list) |-> i]]
  /\ r = fromText(<<>>, tag)
  /\ op = "init"
  /\ arg = <<>>
  /\ pre = [op |-> "none",
            s |-> [type |-> tag, text |-> text, length |-> Len(text),
                   markups |-> list],
            r |-> [type |-> toLowerCase(tag), text |-> <<>>, length |-> 0,
                   markups |-> <<>>]]
  /\ added = <<>>
  /\ eq = FALSE
  /\ steps = 0

InitWith(tag, n, list) == InitText(tag, TextOf(n), list)

Target(who) == IF who = "s" THEN s ELSE r

\* The bookkeeping of one operation: its name and arguments, the values
\* before it, and the new heap, s and r.
Step(name, a, h2, s2, r2) ==
  /\ heap' = h2
  /\ s' = s2
  /\ r' = r2
  /\ op' = name
  /\ arg' = a
  /\ pre' = Snapshot
  /\ steps' = steps + 1

\* An in-place operation on `who` that leaves [heap, markups].
Mutate(name, a, who, res) ==
  Step(name, a, res.heap,
       IF who = "s" THEN [s EXCEPT !.markups = res.markups] ELSE s,
       IF who = "r" THEN [r EXCEPT !.markups = res.markups] ELSE r)

\* who.addMarkup(m), m a new object
AddMarkup(who, m) ==
  /\ Mutate("addMarkup", [who |-> who, m |-> m], who,
            AddNew(heap, Target(who).markups, m))
  /\ added' = IF who = "s" THEN Append(added, m) ELSE added
  /\ UNCHANGED eq

\* who.addMarkups(list), list an array of new objects
AddMarkups(who, list) ==
  /\ Mutate("addMarkups", [who |-> who, list |-> list], who,
            addMarkups(heap, Target(who).markups, list))
  /\ added' = IF who = "s" THEN added \o list ELSE added
  /\ UNCHANGED eq

\* who.removeMarkup(t)
RemoveMarkup(who, t) ==
  /\ Mutate("removeMarkup", [who |-> who, t |-> t], who,
            removeMarkup(heap, Target(who).markups, t))
  /\ UNCHANGED <<added, eq>>

\* who.mergeAdjacent()
MergeAdjacent(who) ==
  /\ LET m == mergeAdjacent(heap, Target(who))
     IN Mutate("mergeAdjacent", [who |-> who], who,
               [heap |-> m.heap, markups |-> m.ser.markups])
  /\ UNCHANGED <<added, eq>>

\* r = s.substr(start, length)
Substr(start, length) ==
  /\ LET d == substr(heap, s, start, length)
     IN Step("substr", [start |-> start, length |-> length], d.heap, s, d.ser)
  /\ UNCHANGED <<added, eq>>

\* r = s.substring(start, end)
Substring(start, end) ==
  /\ LET d == substring(heap, s, start, end)
     IN Step("substring", [start |-> start, end |-> end], d.heap, s, d.ser)
  /\ UNCHANGED <<added, eq>>

\* r = s.append(toAdd)
Append_(toAdd) ==
  /\ LET d == append(heap, s, toAdd)
     IN Step("append", [toAdd |-> toAdd], d.heap, s, d.ser)
  /\ UNCHANGED <<added, eq>>

\* r = s.substr(0, k).append(s.substr(k)); eq = r.equals(s)
RoundTrip(k) ==
  /\ LET left == substr(heap, s, 0, Given(k))
         right == substr(left.heap, s, k, Absent)
         d == append(right.heap, left.ser, SerArg(right.ser))
     IN /\ Step("roundTrip", [k |-> k], d.heap, s, d.ser)
        /\ eq' = equals(d.heap, d.ser, s)
  /\ UNCHANGED added

\* r = s.replace(pat, str), pat with the flag g or without
Replace(pat, g, str) ==
  /\ LET d == replace(heap, s, pat, g, str)
     IN Step("replace", [pat |-> pat, g |-> g, str |-> str], d.heap, s, d.ser)
  /\ UNCHANGED <<added, eq>>

\* ------------------------------------------------- insertion from empty
\* The markups addMarkup is given here: any type, start and end.
AnyMarkups ==
  {Markup(t, a, b, IF t = link THEN "a" ELSE Undef) :
     t \in Types, a \in 0..MaxPos, b \in 0..MaxPos}

InitAdd == InitWith("p", MaxPos, <<>>)

NextAdd ==
  \/ \E m \in AnyMarkups :
       /\ Len(s.markups) < MaxAdds
       /\ AddMarkup("s", m)
  \/ \E m1 \in AnyMarkups, m2 \in AnyMarkups :
       /\ Len(s.markups) + 2 <= MaxAdds
       /\ AddMarkups("s", <<m1, m2>>)

SpecAdd == InitAdd /\ [][NextAdd]_vars

\* C2: after every call of a sequence of addMarkup / addMarkups calls on an
\* empty list, the list is sorted by (type, start, end) and holds exactly
\* the markups that were inserted, as often as they were inserted.
SortedAfterInsertions ==
  /\ Sorted(View(heap, s.markups))
  /\ SameBag(View(heap, s.markups), added)

InsertedInTheMiddle ==
  /\ op = "addMarkup"
  /\ Len(s.markups) = 3
  /\ s.markups[2] = Len(heap)
  /\ \E i \in 1..2 : heap[s.markups[i]] = heap[s.markups[i + 1]]

\* --------------------------------------------------- in-place operations
InitSorted(tags) ==
  \E tag \in tags, n \in 0..MaxLen :
    \E list \in SortedLists(n, MaxMarkups) : InitWith(tag, n, list)

\* The README's example: "Some bold and italic text", bold over [5, 9) and
\* italic over [14, 20).
ExampleLength == 25
InitExample ==
  InitWith("p", ExampleLength, <<Markup(bold, 5, 9, Undef), Markup(italic, 14, 20, Undef)>>)

\* The ranges removeMarkup is given: start < end within the text; for the
\* example, the range of §8's scenario.
Targets(x) ==
  IF x.length = ExampleLength THEN {Markup(bold, 6, 8, Undef)}
  ELSE {Markup(t, a, b, Undef) : t \in Types, a \in 0..x.length, b \in 0..x.length}

InitRemove == InitSorted({"p"}) \/ InitExample

NextRemove ==
  \E t \in Targets(s) :
    /\ steps = 0
    /\ t.start < t.end
    /\ RemoveMarkup("s", t)

SpecRemove == InitRemove /\ [][NextRemove]_vars

Overlaps(m, t) == m.type = t.type /\ m.start < t.end /\ m.end > t.start

\* Same-type markups of the list v neither touch nor overlap.
Separate(v) ==
  \A i \in 1..Len(v), j \in 1..Len(v) :
    i < j /\ v[i].type = v[j].type => v[j].start > v[i].end

\* C1: after s.removeMarkup(t) on a sorted list, no markup of t's type
\* overlaps [t.start, t.end).
OverlapClearance ==
  op = "removeMarkup" /\ Sorted(pre.s.markups) =>
    \A i \in 1..Len(s.markups) : ~Overlaps(heap[s.markups[i]], arg.t)

\* C3: s.removeMarkup(t) on a sorted list leaves the list sorted.
RemovePreservesSort ==
  op = "removeMarkup" /\ Sorted(pre.s.markups) =>
    Sorted(View(heap, s.markups))

\* The non-empty pieces of m around the range of t.
Pieces(m, t) ==
  (IF m.start # t.start THEN <<[m EXCEPT !.end = t.start]>> ELSE <<>>)
    \o (IF t.end # m.end THEN <<[m EXCEPT !.start = t.end]>> ELSE <<>>)

FirstOfType(v, t) ==
  IF \E i \in 1..Len(v) : v[i].type = t.type
  THEN CHOOSE i \in 1..Len(v) :
         v[i].type = t.type /\ \A j \in 1..i - 1 : v[j].type # t.type
  ELSE 0

Contains(m, t) == m.start <= t.start /\ m.end >= t.end

\* C10: when the first markup m of t's type in a sorted list contains t's
\* range, removeMarkup(t) replaces m in place by the non-empty pieces among
\* [m.start, t.start) and [t.end, m.end), which carry m's type and href, and
\* every other entry keeps its place and its fields.
SplitOnContainment ==
  LET v == pre.s.markups
      j == FirstOfType(v, arg.t)
  IN op = "removeMarkup" /\ Sorted(v) /\ j > 0 /\ Contains(v[j], arg.t) =>
       View(heap, s.markups) =
         SubSeq(v, 1, j - 1) \o Pieces(v[j], arg.t) \o SubSeq(v, j + 1, Len(v))

\* C10, the example: {bold,5,9},{italic,14,20} and removeMarkup({bold,6,8})
\* yield {bold,5,6},{bold,8,9},{italic,14,20}.
SplitExample ==
  op = "removeMarkup" /\ s.length = ExampleLength =>
    View(heap, s.markups) =
      <<Markup(bold, 5, 6, Undef), Markup(bold, 8, 9, Undef),
        Markup(italic, 14, 20, Undef)>>

InitMerge == InitSorted({"p"})

NextMerge == steps < 2 /\ MergeAdjacent("s")

SpecMerge == InitMerge /\ [][NextMerge]_vars

\* C8: a second mergeAdjacent leaves the list of the first as it is, and
\* after one call no two markups of a type touch or overlap.
MergeIdempotent ==
  /\ op = "mergeAdjacent" /\ pre.op = "mergeAdjacent" =>
       View(heap, s.markups) = pre.s.markups
  /\ op = "mergeAdjacent" /\ pre.op = "init" =>
       Separate(View(heap, s.markups))

\* The first call merged something and the second call has run.
MergedTwice ==
  /\ op = "mergeAdjacent" /\ pre.op = "mergeAdjacent"
  /\ Len(s.markups) < Len(heap)
  /\ Len(s.markups) > 0

\* --------------------------------------------------------------- slices
InitSlice == InitSorted(Tags)

NextSlice ==
  \E start \in -(s.length + 1)..s.length :
    \E length \in {Absent} \cup {Given(n) : n \in 0..s.length + 1} :
      /\ steps = 0
      /\ Substr(start, length)

SpecSlice == InitSlice /\ [][NextSlice]_vars

\* The slice [SliceStart, SliceEnd) that the arguments of the last substr
\* stand for, in a text of length n > 0.
SliceStart(n) == IF arg.start >= 0 THEN arg.start ELSE arg.start % n
SliceEnd(n) ==
  IF arg.length = Absent THEN n ELSE Min(SliceStart(n) + arg.length[1], n)

RECURSIVE Intersecting(_, _, _)
Intersecting(v, a, b) ==
  IF v = <<>> THEN <<>>
  ELSE (IF Head(v).start < b /\ Head(v).end > a
        THEN <<Markup(Head(v).type, Max(Head(v).start, a) - a,
                      Min(Head(v).end, b) - a, Head(v).href)>>
        ELSE <<>>) \o Intersecting(Tail(v), a, b)

\* C6: for a text of length > 0 and a slice 0 <= start < end <= length, the
\* markups of s.substr are exactly those of s that intersect the slice,
\* re-based and clamped to it; each lies within the result with
\* start < end, and the result is sorted.
SubstrExtraction ==
  LET n == pre.s.length
      a == SliceStart(n)
      b == SliceEnd(n)
      got == View(heap, r.markups)
  IN op = "substr" /\ n > 0 /\ 0 <= a /\ a < b /\ b <= n =>
       /\ SameBag(got, Intersecting(pre.s.markups, a, b))
       /\ r.length = b - a
       /\ \A i \in 1..Len(got) :
            0 <= got[i].start /\ got[i].start < got[i].end /\ got[i].end <= r.length
       /\ Sorted(got)

\* A slice from a negative start that drops one markup and clamps another
\* at both ends.
SliceClamps ==
  /\ op = "substr"
  /\ arg.start < 0
  /\ Len(pre.s.markups) = 2
  /\ Len(r.markups) = 1
  /\ \E i \in 1..2 :
       /\ pre.s.markups[i].start < SliceStart(pre.s.length)
       /\ pre.s.markups[i].end > SliceEnd(pre.s.length)
       /\ heap[r.markups[1]] = Markup(pre.s.markups[i].type, 0, r.length,
                                      pre.s.markups[i].href)

\* --------------------------------------------------------- concatenation
\* The strings append is given: code units that are not in the texts.
Strings == {<<8>>, <<8, 9>>}

\* The receivers have a type in lower case, as the constructor and fromText
\* set it.
InitAppend == InitSorted({toLowerCase(tag) : tag \in Tags})

NextAppend ==
  \/ \E str \in Strings :
       /\ steps = 0
       /\ Append_(StrArg(str))
  \/ \E k \in 0..s.length :
       /\ steps = 0
       /\ RoundTrip(k)

SpecAppend == InitAppend /\ [][NextAppend]_vars

SameRange(a, b) == a.type = b.type /\ a.start = b.start /\ a.end = b.end

\* The sorted list v with every run of markups of one (type, start, end)
\* reversed.
TiesReversed(v) ==
  [i \in 1..Len(v) |->
     LET run == {j \in 1..Len(v) : SameRange(v[j], v[i])}
         lo == CHOOSE j \in run : \A k \in run : j <= k
         hi == CHOOSE j \in run : \A k \in run : j >= k
     IN v[lo + hi - i]]

\* The markup m of a text of length n after a string of length k was
\* appended to the text.
Extended(m, n, k) == IF m.end = n THEN [m EXCEPT !.end = n + k] ELSE m

AppendedText ==
  /\ r.text = pre.s.text \o arg.toAdd.text
  /\ r.length = pre.s.length + Len(arg.toAdd.text)
  /\ Len(r.markups) = Len(pre.s.markups)

\* C5: the result of append(str) has the receiver's markups in the
\* receiver's order, those that ended at its length ending at the new length.
AppendStringKeepsOrder ==
  op = "append" /\ arg.toAdd.kind = "string" =>
    /\ AppendedText
    /\ \A i \in 1..Len(r.markups) :
         heap[r.markups[i]] =
           Extended(pre.s.markups[i], pre.s.length, Len(arg.toAdd.text))

\* What the code does instead: markups of one (type, start, end) come out in
\* the reverse of their order in the receiver; the rest is as C5 says.
AppendStringReversesTies ==
  op = "append" /\ arg.toAdd.kind = "string" =>
    /\ AppendedText
    /\ \A i \in 1..Len(r.markups) :
         heap[r.markups[i]] =
           Extended(TiesReversed(pre.s.markups)[i], pre.s.length,
                    Len(arg.toAdd.text))

\* C4 as stated: s.substr(0, k).append(s.substr(k)).equals(s) for every
\* sorted s and 0 <= k <= s.length.
RoundTripEquals == op = "roundTrip" => eq

\* C4 as amended: the same for every s whose type is in lower case and in
\* which no two markups of a type touch or overlap.
RoundTripEqualsSeparate ==
  /\ op = "roundTrip"
  /\ Separate(pre.s.markups)
  /\ pre.s.type = toLowerCase(pre.s.type)
  => eq

\* The text was cut inside a link, and s has a second markup.
RoundTripCutsMarkup ==
  /\ op = "roundTrip"
  /\ eq
  /\ Len(pre.s.markups) = 2
  /\ \E i \in 1..2 :
       /\ pre.s.markups[i].start < arg.k
       /\ pre.s.markups[i].end > arg.k
       /\ pre.s.markups[i].href = "b"

\* ---------------------------------------------- derivation, then mutation
InitAlias == InitSorted({"p"})

\* The ranges the in-place operations are given.
AliasMarkups(x) ==
  {Markup(t, a, b, Undef) :
     t \in Types, a \in 0..Min(x.length, 2), b \in 0..Min(x.length, 2)}

Derivations == {"substr", "substring", "append"}
Mutators == {"addMarkup", "removeMarkup", "mergeAdjacent"}

NextAlias ==
  \/ \E start \in {-1, 1}, length \in {Absent, Given(2)} :
       /\ steps = 0
       /\ Substr(start, length)
  \/ \E a \in {<<0, Absent>>, <<2, Given(1)>>} :
       /\ steps = 0
       /\ Substring(a[1], a[2])
  \/ \E toAdd \in {NoArg, StrArg(<<8>>), SerArg(s)} :
       /\ steps = 0
       /\ Append_(toAdd)
  \/ \E who \in {"s", "r"} :
       /\ steps = 1
       /\ AddMarkup(who, Markup(bold, 0, 1, Undef))
  \/ \E who \in {"s", "r"} :
       \E t \in AliasMarkups(Target(who)) :
         /\ steps = 1
         /\ t.start < t.end
         /\ RemoveMarkup(who, t)
  \/ \E who \in {"s", "r"} :
       /\ steps = 1
       /\ MergeAdjacent(who)

SpecAlias == InitAlias /\ [][NextAlias]_vars

\* C7: a derivation leaves s as it was, s and r never hold the same markup
\* object, and an in-place operation on one of them leaves the other as it
\* was.
Independent ==
  /\ Range(s.markups) \cap Range(r.markups) = {}
  /\ op \in Derivations => SerView(heap, s) = pre.s
  /\ op \in Mutators /\ arg.who = "r" => SerView(heap, s) = pre.s
  /\ op \in Mutators /\ arg.who = "s" => SerView(heap, r) = pre.r

\* removeMarkup clamped a markup of r in place, r being derived from s with
\* that markup.
ClampedInDerived ==
  /\ op = "removeMarkup"
  /\ arg.who = "r"
  /\ Len(r.markups) = Len(pre.r.markups)
  /\ Len(r.markups) > 0
  /\ View(heap, r.markups) # pre.r.markups
  /\ pre.r.markups = pre.s.markups
  /\ pre.op \in Derivations
  /\ Len(heap) = Len(pre.s.markups) + Len(pre.r.markups)

\* --------------------------------------------------------- substitution
\* The text of length n of the code units 2, 1, 2, 1, ...
AltText(n) == [i \in 1..n |-> 1 + (i % 2)]

\* The README's example: "One... two", italic over [5, 10); the three dots
\* are replaced by an ellipsis.
OneTwo == <<79, 110, 101, 46, 46, 46, 32, 116, 119, 111>>
Dots == <<46, 46, 46>>
Ellipsis == <<8230>>

InitReplace ==
  \/ \E n \in 0..MaxLen + 1 :
       \E list \in SortedLists(n, MaxMarkups) : InitText("p", AltText(n), list)
  \/ InitText("p", OneTwo, <<Markup(italic, 5, 10, Undef)>>)

NextReplace ==
  \/ \E pat \in {<<2>>, <<2, 1>>}, g \in BOOLEAN :
       \E str \in {<<>>, <<7, 7, 7>>} :
         /\ steps = 0
         /\ s.text # OneTwo
         /\ Replace(pat, g, str)
  \/ /\ steps = 0
     /\ s.text = OneTwo
     /\ Replace(Dots, FALSE, Ellipsis)

SpecReplace == InitReplace /\ [][NextReplace]_vars

\* The offsets at which the pattern of the last replace occurs in the
\* receiver's text, and those among them that were replaced.
Occurrences ==
  {i \in 0..Len(pre.s.text) - Len(arg.pat) :
     SubSeq(pre.s.text, i + 1, i + Len(arg.pat)) = arg.pat}

Replaced ==
  IF arg.g \/ Occurrences = {} THEN Occurrences
  ELSE {CHOOSE i \in Occurrences : \A j \in Occurrences : i <= j}

Delta == Len(arg.str) - Len(arg.pat)

\* What becomes of the markups of v when the one match [a, b) is replaced
\* and the text gets d longer.
RECURSIVE Rebased(_, _, _, _)
Rebased(v, a, b, d) ==
  IF v = <<>> THEN <<>>
  ELSE LET m == Head(v)
       IN (IF a <= m.start /\ m.end <= b THEN <<>>
           ELSE IF m.start < a /\ a < m.end /\ m.end <= b
           THEN <<[m EXCEPT !.end = a]>>
           ELSE IF a <= m.start /\ m.start < b /\ b < m.end
           THEN <<[m EXCEPT !.start = b + d, !.end = m.end + d]>>
           ELSE <<[m EXCEPT !.start = IF m.start >= b THEN m.start + d
                                      ELSE m.start,
                            !.end = IF m.end >= b THEN m.end + d
                                    ELSE m.end]>>)
            \o Rebased(Tail(v), a, b, d)

\* Several matches of length n at the offsets rep, in the receiver's
\* coordinates: a start inside a match is pushed to its end, and on if the
\* next match begins there; an end inside a match is pulled to its start; a
\* position then moves by the changes of length d of the matches that end
\* at or before it.
RECURSIVE Pushed(_, _, _)
Pushed(rep, n, p) ==
  IF \E a \in rep : a <= p /\ p < a + n
  THEN Pushed(rep, n, (CHOOSE a \in rep : a <= p /\ p < a + n) + n)
  ELSE p

Pulled(rep, n, q) ==
  IF \E a \in rep : a < q /\ q <= a + n
  THEN CHOOSE a \in rep : a < q /\ q <= a + n
  ELSE q

Moved(rep, n, d, p) == p + d * Cardinality({a \in rep : a + n <= p})

RECURSIVE Accumulated(_, _, _, _)
Accumulated(v, rep, n, d) ==
  IF v = <<>> THEN <<>>
  ELSE LET m == Head(v)
           st == Pushed(rep, n, m.start)
           en == Pulled(rep, n, m.end)
       IN (IF st < en
           THEN <<[m EXCEPT !.start = Moved(rep, n, d, st),
                            !.end = Moved(rep, n, d, en)]>>
           ELSE <<>>) \o Accumulated(Tail(v), rep, n, d)

====
